---- MODULE Spec2Model ----
(***************************************************************************)
(* Model of lowpoly.py: the `execute` command, which turns an imported     *)
(* high-poly mesh into a low-poly mesh with baked textures inside one      *)
(* Blender session.                                                        *)
(*                                                                         *)
(* The session (bpy.data, bpy.context) is the global state; `execute` is   *)
(* a straight-line procedure over it, modelled one block of the source per *)
(* action.  Host operators (the bpy.ops calls) are modelled by the effect   *)
(* the script relies on; what the host alone decides (the face counts of   *)
(* the quad remesher, whether a remesh keeps the vertex-color channel, the *)
(* content of the imported file) is a nondeterministic choice.             *)
(*                                                                         *)
(* Numbers: lengths and factors are integers in fixed units, so that       *)
(* object_height * voxel_size_factor is exact; quad_percentage is the      *)
(* exact rational (a reduced pair <<num, den>>), i.e. floating-point       *)
(* rounding is not modelled.  Optional values (Python's None, a local not  *)
(* yet assigned) are sequences of length 0 or 1.                           *)
(***************************************************************************)
EXTENDS Integers, Sequences, FiniteSets, TLC

\* ------------------------------------------------------------------ bounds

\* largest bounding-box height of an imported mesh (0 = flat)
MaxHeight == 1
\* voxel_size_factor ranges over 1..MaxFactor
MaxFactor == 2
\* voxel_remesh_iterations ranges over 0..MaxIterations
MaxIterations == 2
\* the quad remesher returns at most MaxFaces polygons
MaxFaces == 2
\* a file is imported only while the session holds at most MaxLeftover
\* data-blocks (objects, materials, images) left by earlier calls
MaxLeftover == 0

\* random.randint(1000, 9999)
RandLo == 1000
RandHi == 9999

\* defaults of the arguments the model does not vary
target_faces == 7500
texture_resolution == 2048
multiresolution_levels == 3

\* ----------------------------------------------------------------- helpers

None == <<>>
Some(v) == <<v>>
Val(o) == o[1]

Last(s) == s[Len(s)]

Range(s) == {s[i] : i \in DOMAIN s}

\* Data-block names are <<base, k>>: base, base.001, base.002, ...
Name(base) == <<base, 0>>

\* The host keeps data-block names unique: a new block called base gets the
\* first free suffix.
UniqueName(base, used) ==
    <<base, CHOOSE k \in 0..Cardinality(used) :
                /\ <<base, k>> \notin used
                /\ \A j \in 0..(k - 1) : <<base, j>> \in used>>

RECURSIVE GCD(_, _)
GCD(a, b) == IF b = 0 THEN a ELSE GCD(b, a % b)

\* Exact rationals as reduced pairs <<num, den>>, den > 0.
Rat(n, d) == LET g == GCD(n, d) IN <<n \div g, d \div g>>
RatTimes(r, k) == Rat(r[1] * k, r[2])
RatZero == <<0, 1>>

\* --------------------------------------------------------------- the state

VARIABLES
    \* the session: bpy.data and bpy.context
    objects,        \* bpy.context.scene.objects, in traversal order
    materials,      \* bpy.data.materials: set of [name, nodes, links]
    images,         \* bpy.data.images: set of records
    selected,       \* names of the selected objects
    active,         \* bpy.context.view_layer.objects.active
    render,         \* bpy.context.scene.render / .cycles settings
    addons,         \* enabled addons
    \* the running call of execute
    pc,             \* position in execute; "done" when no call is running
    result,         \* how the last call ended
    args,           \* the arguments of the call
    source_object_name,
    source_object,
    target_object,
    object_height,
    normalized_voxel_size,
    iter,           \* the loop variable _ of the remesh loop
    quad_count,
    total_faces,
    quad_percentage,
    has_vertex_colors,
    new_mat,
    number,
    diffuse_img,
    normal_img,
    \* what the call did so far (history)
    stages,         \* stages entered, in order
    requested,      \* image names asked of bpy.data.images.new
    preexisting,    \* image names in the session when textures were allocated
    bakes,          \* bake operators invoked, in order
    written         \* files written by export_scene.gltf, in order

session == <<objects, materials, images, selected, active, render, addons>>
locals == <<args, source_object_name, source_object, target_object,
            object_height, normalized_voxel_size, iter, quad_count,
            total_faces, quad_percentage, has_vertex_colors, new_mat,
            number, diffuse_img, normal_img>>
history == <<stages, requested, preexisting, bakes, written>>
vars == <<session, pc, result, locals, history>>

\* ------------------------------------------------------------ the session

\* An object with its mesh data: height is the vertical extent of bound_box,
\* geom the operations applied to the mesh since import, polygons the pair
\* <<quads, faces>> once the script depends on it.
NewObject(name, type, height, vcolors, mats) ==
    [name |-> name, type |-> type, height |-> height, vcolors |-> vcolors,
     materials |-> mats, modifiers |-> <<>>, smooth |-> FALSE,
     geom |-> <<>>, polygons |-> None]

\* The factory startup scene, as far as the script knows it: the cube.
FactoryObjects == <<NewObject(Name("Cube"), "MESH", 1, FALSE, <<>>)>>

FactoryRender ==
    [engine |-> "FACTORY", device |-> "FACTORY", use_bake_multires |-> FALSE,
     bake_type |-> "FACTORY", use_selected_to_active |-> FALSE,
     use_cage |-> FALSE, cage_extrusion |-> "FACTORY",
     use_pass_direct |-> TRUE, use_pass_indirect |-> TRUE,
     use_pass_color |-> TRUE, samples |-> "FACTORY"]

FactoryAddons == {}

\* bpy.ops.wm.read_factory_settings(): the session as a fresh start has it.
FactorySession ==
    /\ objects = FactoryObjects
    /\ materials = {}
    /\ images = {}
    /\ selected = {Name("Cube")}
    /\ active = Some(Name("Cube"))
    /\ render = FactoryRender
    /\ addons = FactoryAddons

ObjectNames == {objects[i].name : i \in DOMAIN objects}

HasObject(name) == name \in ObjectNames

Obj(name) == objects[CHOOSE i \in DOMAIN objects : objects[i].name = name]

\* objects with the object called name replaced by rec
WithObject(name, rec) ==
    [i \in DOMAIN objects |->
        IF objects[i].name = name THEN rec ELSE objects[i]]

\* objects without the objects whose names are in names
RECURSIVE Without(_, _)
Without(objs, names) ==
    IF objs = <<>> THEN <<>>
    ELSE IF Head(objs).name \in names THEN Without(Tail(objs), names)
    ELSE <<Head(objs)>> \o Without(Tail(objs), names)

MaterialNames == {m.name : m \in materials}

Mat(name) == CHOOSE m \in materials : m.name = name

ImageNames == {im.name : im \in images}

\* ------------------------------------------------------- imported files

\* What a file may hold: at most one object (a light or a mesh), and
\* possibly an image whose name has the form the script gives its textures.
ObjectTemplates ==
    {[base |-> "Lamp", type |-> "LIGHT", height |-> 0, vcolors |-> FALSE,
      material |-> FALSE]}
    \cup
    {[base |-> "Mesh", type |-> "MESH", height |-> h, vcolors |-> c,
      material |-> m] : h \in 0..MaxHeight, c \in BOOLEAN, m \in BOOLEAN}

FileImageSets == {{}, {<<"Diffuse", RandLo>>}}

Scenes ==
    [objects : {<<>>} \cup {<<t>> : t \in ObjectTemplates},
     images : FileImageSets]

Node(name, type) == [name |-> name, type |-> type, image |-> None]

\* a material whose node tree is the default one: a Principled BSDF feeding
\* the material output
DefaultMaterial(name) ==
    [name |-> name,
     nodes |-> {Node(Name("Principled BSDF"), "ShaderNodeBsdfPrincipled"),
                Node(Name("Material Output"), "ShaderNodeOutputMaterial")},
     links |-> {<<Name("Principled BSDF"), "BSDF",
                  Name("Material Output"), "Surface">>},
     active |-> None]

NewImage(name, width) ==
    [name |-> name, width |-> width, colorspace |-> "sRGB",
     pixels |-> "blank", packed |-> FALSE]

\* The objects of a file join the scene in order, each under a fresh name,
\* a mesh with a material bringing that material along.
RECURSIVE ImportObjects(_, _, _)
ImportObjects(templates, objs, mats) ==
    IF templates = <<>> THEN [objects |-> objs, materials |-> mats]
    ELSE LET t == Head(templates)
             name == UniqueName(t.base, {objs[i].name : i \in DOMAIN objs})
             mname == UniqueName("Material", {m.name : m \in mats})
             obj == NewObject(name, t.type, t.height, t.vcolors,
                              IF t.material THEN <<mname>> ELSE <<>>)
         IN ImportObjects(Tail(templates), Append(objs, obj),
                          IF t.material
                          THEN mats \cup {DefaultMaterial(mname)}
                          ELSE mats)

RECURSIVE ImportImages(_, _)
ImportImages(bases, imgs) ==
    IF bases = {} THEN imgs
    ELSE LET b == CHOOSE x \in bases : TRUE
             name == UniqueName(b, {im.name : im \in imgs})
         IN ImportImages(bases \ {b}, imgs \cup {NewImage(name, 1)})

\* ------------------------------------------------------------ the program

Extensions == {"fbx", "glb", "obj", "usdz", "txt"}

\* file_path.endswith(".fbx") / ".glb" / ".obj" / ".usdz"
SupportedExtension(ext) == ext \in {"fbx", "glb", "obj", "usdz"}

SourceNames == {"", "Mesh", "Ghost"}

Args ==
    [source_object_name : SourceNames,
     voxel_size_factor : 1..MaxFactor,
     voxel_remesh_iterations : 0..MaxIterations,
     keep_vertex_colors : BOOLEAN]

\* A faulty order of the blocks: the scene is exported before the subdivision
\* modifier is removed and the source deleted.
ProgramOrderExportEarly ==
    <<"setup", "import", "resolve", "validate", "duplicate", "voxel_loop",
      "cleanup", "quadriflow", "uv", "cage", "material", "textures",
      "apply_shrinkwrap", "bake", "export", "discard", "finish", "done">>

\* The blocks of execute, in program order.
ProgramOrder ==
    <<"setup", "import", "resolve", "validate", "duplicate", "voxel_loop",
      "cleanup", "quadriflow", "uv", "cage", "material", "textures",
      "apply_shrinkwrap", "bake", "discard", "export", "finish", "done">>

\* the block that follows block p
Succ(p) ==
    ProgramOrder[1 + CHOOSE i \in DOMAIN ProgramOrder : ProgramOrder[i] = p]

\* The stages of the pipeline, numbered in the order of section 2 of the
\* design: 1 Validation, 2 Manifold Reconstruction, 3 Cleanup/Verification,
\* 4 Budget Remesh, 5 UV Parameterization, 6 Cage Construction,
\* 7 Texture Transfer, 8 Export.  Import and session setup belong to none.
StageOf(p) ==
    CASE p \in {"resolve", "validate"} -> 1
      [] p \in {"duplicate", "voxel_loop"} -> 2
      [] p = "cleanup" -> 3
      [] p = "quadriflow" -> 4
      [] p = "uv" -> 5
      [] p = "cage" -> 6
      [] p \in {"material", "textures", "apply_shrinkwrap", "bake",
                "discard"} -> 7
      [] p = "export" -> 8
      [] OTHER -> 0

\* stages, once the block at pc has run
Visit ==
    LET s == StageOf(pc)
    IN IF s = 0 \/ (stages # <<>> /\ Last(stages) = s) THEN stages
       ELSE Append(stages, s)

FreshLocals ==
    /\ source_object = None
    /\ target_object = None
    /\ object_height = None
    /\ normalized_voxel_size = None
    /\ iter = None
    /\ quad_count = None
    /\ total_faces = None
    /\ quad_percentage = None
    /\ has_vertex_colors = None
    /\ new_mat = None
    /\ number = None
    /\ diffuse_img = None
    /\ normal_img = None

FreshHistory ==
    /\ stages = <<>>
    /\ requested = <<>>
    /\ preexisting = {}
    /\ bakes = <<>>
    /\ written = <<>>

\* a new call frame: no local is assigned, nothing has been done
ResetLocals ==
    /\ source_object' = None
    /\ target_object' = None
    /\ object_height' = None
    /\ normalized_voxel_size' = None
    /\ iter' = None
    /\ quad_count' = None
    /\ total_faces' = None
    /\ quad_percentage' = None
    /\ has_vertex_colors' = None
    /\ new_mat' = None
    /\ number' = None
    /\ diffuse_img' = None
    /\ normal_img' = None

ResetHistory ==
    /\ stages' = <<>>
    /\ requested' = <<>>
    /\ preexisting' = {}
    /\ bakes' = <<>>
    /\ written' = <<>>

Init ==
    /\ FactorySession
    /\ pc = "done"
    /\ result = "none"
    /\ args = None
    /\ source_object_name = None
    /\ FreshLocals
    /\ FreshHistory

\* An exception leaves execute: nothing is undone.
Raise(err) ==
    /\ pc' = "done"
    /\ result' = err
    /\ UNCHANGED <<session, locals, history>>

\* execute(...) is called.
Start ==
    /\ pc = "done"
    /\ \E a \in Args :
        /\ args' = Some(a)
        /\ source_object_name' = Some(a.source_object_name)
    /\ pc' = "setup"
    /\ result' = "running"
    /\ ResetLocals
    /\ ResetHistory
    /\ UNCHANGED session

\* Delete the default cube (with whatever else is selected), enable the addon.
Setup ==
    /\ pc = "setup"
    /\ IF HasObject(Name("Cube"))
       THEN LET sel == selected \cup {Name("Cube")}
            IN /\ objects' = Without(objects, sel)
               /\ selected' = {}
               /\ active' = IF active # None /\ Val(active) \in sel
                            THEN None ELSE active
       ELSE UNCHANGED <<objects, selected, active>>
    /\ addons' = addons \cup {"object_print3d_utils"}
    /\ pc' = Succ(pc)
    /\ stages' = Visit
    /\ UNCHANGED <<materials, images, render, result, locals,
                   requested, preexisting, bakes, written>>

\* Import the file, or refuse its extension.
Import ==
    /\ pc = "import"
    /\ \E ext \in Extensions :
        IF SupportedExtension(ext)
        THEN \E scene \in Scenes :
              /\ Len(objects) + Cardinality(materials) + Cardinality(images)
                    <= MaxLeftover
              /\ LET got == ImportObjects(scene.objects, objects, materials)
                     new == {got.objects[i].name : i \in DOMAIN got.objects}
                                \ ObjectNames
                 IN /\ objects' = got.objects
                    /\ materials' = got.materials
                    /\ selected' = new
                    /\ active' = IF new = {} THEN active
                                 ELSE Some(Last(got.objects).name)
              /\ images' = ImportImages(scene.images, images)
              /\ pc' = Succ(pc)
              /\ result' = result
        ELSE /\ pc' = "done"
             /\ result' = "ValueError: Invalid file format"
             /\ UNCHANGED <<objects, materials, selected, active, images>>
    /\ UNCHANGED <<render, addons, locals, history>>

\* A faulty find_first_mesh: the first object of the scene, whatever its type.
FindFirstObject ==
    IF objects # <<>> THEN Some(objects[1].name) ELSE None

\* find_first_mesh(): the first mesh-typed object in traversal order
FindFirstMesh ==
    IF \E i \in DOMAIN objects : objects[i].type = "MESH"
    THEN Some(objects[CHOOSE i \in DOMAIN objects :
                        /\ objects[i].type = "MESH"
                        /\ \A j \in 1..(i - 1) : objects[j].type # "MESH"].name)
    ELSE None

\* Resolve the source object: by name, or the first mesh of the scene.
Resolve ==
    /\ pc = "resolve"
    /\ IF Val(source_object_name) = ""
       THEN IF FindFirstMesh = None
            THEN Raise("ValueError: No mesh found in the scene")
            ELSE /\ source_object' = FindFirstMesh
                 /\ source_object_name' = Some(Val(FindFirstMesh)[1])
                 /\ pc' = Succ(pc)
                 /\ stages' = Visit
                 /\ UNCHANGED <<session, result, args, target_object,
                                object_height, normalized_voxel_size, iter,
                                quad_count, total_faces, quad_percentage,
                                has_vertex_colors, new_mat, number,
                                diffuse_img, normal_img, requested,
                                preexisting, bakes, written>>
       ELSE IF ~HasObject(Name(Val(source_object_name)))
            THEN Raise("KeyError")
            ELSE /\ source_object' = Some(Name(Val(source_object_name)))
                 /\ pc' = Succ(pc)
                 /\ stages' = Visit
                 /\ UNCHANGED <<session, result, args,
                                source_object_name, target_object,
                                object_height, normalized_voxel_size, iter,
                                quad_count, total_faces, quad_percentage,
                                has_vertex_colors, new_mat, number,
                                diffuse_img, normal_img, requested,
                                preexisting, bakes, written>>

\* obj.select_set(True); active = obj; bpy.ops.object.shade_smooth():
\* every selected object is shaded smooth
SmoothShaded(objs, sel) ==
    [i \in DOMAIN objs |->
        IF objs[i].name \in sel THEN [objs[i] EXCEPT !.smooth = TRUE]
        ELSE objs[i]]

\* max(vertex[2] for vertex in bbox) - min(vertex[2] for vertex in bbox)
BoundBoxHeight(o) == o.height

\* normalized_voxel_size = object_height * voxel_size_factor
VoxelSize(height, factor) == height * factor

\* Smooth the source, measure it, derive the voxel size.
Validate ==
    /\ pc = "validate"
    /\ LET src == Val(source_object)
           sel == selected \cup {src}
           h == BoundBoxHeight(Obj(src))
       IN /\ selected' = sel
          /\ active' = Some(src)
          /\ objects' = SmoothShaded(objects, sel)
          /\ object_height' = Some(h)
          /\ normalized_voxel_size' =
                Some(VoxelSize(h, Val(args).voxel_size_factor))
    /\ pc' = Succ(pc)
    /\ stages' = Visit
    /\ UNCHANGED <<materials, images, render, addons, result, args,
                   source_object_name, source_object, target_object, iter,
                   quad_count, total_faces, quad_percentage, has_vertex_colors,
                   new_mat, number, diffuse_img, normal_img, requested,
                   preexisting, bakes, written>>

\* bpy.ops.object.duplicate(): a copy of every selected object, its mesh data
\* copied, its materials shared; the copies become the selection
DuplicateOf(o, name) == [o EXCEPT !.name = name]

Modifier(name, type, mode, value, levels, target) ==
    [name |-> name, type |-> type, mode |-> mode, value |-> value,
     levels |-> levels, target |-> target]

ModifierNames(o) == {o.modifiers[i].name : i \in DOMAIN o.modifiers}

\* target_object.modifiers.new(name="Remesh", type="REMESH"), mode VOXEL,
\* voxel_size = normalized_voxel_size
WithRemeshModifier(o, size) ==
    [o EXCEPT !.modifiers =
        Append(@, Modifier(UniqueName("Remesh", ModifierNames(o)), "REMESH",
                           "VOXEL", size, 0, None))]

\* Duplicate the source; the copy is the target and the active object, and
\* gets the first Remesh modifier.
Duplicate ==
    /\ pc = "duplicate"
    /\ LET src == Val(source_object)
           name == UniqueName(src[1], ObjectNames)
       IN /\ objects' = Append(objects,
                WithRemeshModifier(DuplicateOf(Obj(src), name),
                                   Val(normalized_voxel_size)))
          /\ selected' = {name}
          /\ active' = Some(name)
          /\ target_object' = Some(name)
    /\ pc' = Succ(pc)
    /\ stages' = Visit
    /\ UNCHANGED <<materials, images, render, addons, result, args,
                   source_object_name, source_object, object_height,
                   normalized_voxel_size, iter, quad_count, total_faces,
                   quad_percentage, has_vertex_colors, new_mat, number,
                   diffuse_img, normal_img, requested, preexisting, bakes,
                   written>>

HasModifier(o, name) == name \in ModifierNames(o)

RECURSIVE DropModifier(_, _)
DropModifier(mods, name) ==
    IF mods = <<>> THEN <<>>
    ELSE IF Head(mods).name = name THEN Tail(mods)
    ELSE <<Head(mods)>> \o DropModifier(Tail(mods), name)

GetModifier(o, name) ==
    o.modifiers[CHOOSE i \in DOMAIN o.modifiers : o.modifiers[i].name = name]

GeomOp(op, arg) == [op |-> op, arg |-> arg]

\* bpy.ops.object.modifier_apply(modifier=name) on o: the modifier's effect
\* becomes part of the mesh and the modifier leaves the stack
ModifierApplied(o, name) ==
    LET m == GetModifier(o, name)
    IN [o EXCEPT !.modifiers = DropModifier(@, name),
                 !.geom = Append(@, GeomOp(m.type, m.value))]

\* bpy.ops.object.modifier_remove(modifier=name) on o
ModifierRemoved(o, name) == [o EXCEPT !.modifiers = DropModifier(@, name)]

\* the value of _ in the next round of `for _ in range(n)`
NextIter == IF iter = None THEN 0 ELSE Val(iter) + 1

\* A faulty loop bound: range(voxel_remesh_iterations + 1).
LoopRunsOnceMore == NextIter <= Val(args).voxel_remesh_iterations

\* range(voxel_remesh_iterations) has another value
LoopContinues == NextIter < Val(args).voxel_remesh_iterations

\* _ < voxel_remesh_iterations - 1
AnotherPassFollows(i) == i < Val(args).voxel_remesh_iterations - 1

\* One round of the remesh loop: apply the modifier, add the next one.
VoxelPass ==
    /\ pc = "voxel_loop"
    /\ LoopContinues
    /\ LET tgt == Val(active)
           i == NextIter
       IN IF ~HasModifier(Obj(tgt), Name("Remesh"))
          THEN Raise("RuntimeError")
          ELSE /\ iter' = Some(i)
               /\ LET applied == ModifierApplied(Obj(tgt), Name("Remesh"))
                  IN objects' = WithObject(tgt,
                        IF AnotherPassFollows(i)
                        THEN WithRemeshModifier(applied,
                                                Val(normalized_voxel_size))
                        ELSE applied)
               /\ pc' = pc
               /\ stages' = Visit
               /\ UNCHANGED <<materials, images, selected, active, render, addons, result,
                   args, source_object_name, source_object, target_object,
                   object_height, normalized_voxel_size, quad_count,
                   total_faces, quad_percentage, has_vertex_colors, new_mat,
                   number, diffuse_img, normal_img, requested, preexisting,
                   bakes, written>>

\* The remesh loop is over.
VoxelExit ==
    /\ pc = "voxel_loop"
    /\ ~LoopContinues
    /\ pc' = Succ(pc)
    /\ stages' = Visit
    /\ UNCHANGED <<objects, materials, images, selected, active, render,
                   addons, result, args, source_object_name, source_object,
                   target_object, object_height, normalized_voxel_size, iter,
                   quad_count, total_faces, quad_percentage, has_vertex_colors,
                   new_mat, number, diffuse_img, normal_img, requested,
                   preexisting, bakes, written>>

WithGeom(o, ops) == [o EXCEPT !.geom = @ \o ops]

\* Edit mode: consistent normals, merge by distance, fill holes; then the
\* non-manifold audit, which only prints.
Cleanup ==
    /\ pc = "cleanup"
    /\ LET tgt == Val(active)
       IN objects' = WithObject(tgt, WithGeom(Obj(tgt),
                        <<GeomOp("normals_make_consistent", 0),
                          GeomOp("remove_doubles", 0),
                          GeomOp("fill_holes", 0)>>))
    /\ pc' = Succ(pc)
    /\ stages' = Visit
    /\ UNCHANGED <<materials, images, selected, active, render, addons, result,
                   args, source_object_name, source_object, target_object,
                   object_height, normalized_voxel_size, iter, quad_count,
                   total_faces, quad_percentage, has_vertex_colors, new_mat,
                   number, diffuse_img, normal_img, requested, preexisting,
                   bakes, written>>

\* bpy.ops.object.quadriflow_remesh(target_faces=target_faces) on o: the
\* host decides how many polygons result, how many of them are quads, and
\* whether the remeshed data still carries the vertex-color channel
Quadriflowed(o, quads, faces, keeps) ==
    [WithGeom(o, <<GeomOp("quadriflow", target_faces)>>)
        EXCEPT !.polygons = Some(<<quads, faces>>),
               !.vcolors = @ /\ keeps]

\* a division by zero
Fault == <<0, 0>>

\* quads / faces in Python: the quotient, or ZeroDivisionError
Quotient(quads, faces) == IF faces = 0 THEN Fault ELSE Rat(quads, faces)

\* A faulty percentage: (quad_count / total_faces) * 100 without the guard.
QuadPercentageUnguarded(quads, faces) ==
    LET q == Quotient(quads, faces)
    IN IF q = Fault THEN Fault ELSE RatTimes(q, 100)

\* (quad_count / total_faces) * 100 if total_faces > 0 else 0
QuadPercentage(quads, faces) ==
    IF faces > 0
    THEN LET q == Quotient(quads, faces)
         IN IF q = Fault THEN Fault ELSE RatTimes(q, 100)
    ELSE RatZero

\* Quad remesh, measure the result, shade the target smooth.
Quadriflow ==
    /\ pc = "quadriflow"
    /\ \E faces \in 0..MaxFaces : \E quads \in 0..faces : \E keeps \in BOOLEAN :
        LET act == Val(active)
            tgt == Val(target_object)
            objs == WithObject(act, Quadriflowed(Obj(act), quads, faces, keeps))
            poly == Val(objs[CHOOSE i \in DOMAIN objs :
                                objs[i].name = tgt].polygons)
            sel == selected \cup {tgt}
        IN IF QuadPercentage(poly[1], poly[2]) = Fault
           THEN /\ pc' = "done"
                /\ result' = "ZeroDivisionError"
                /\ objects' = objs
                /\ quad_count' = Some(poly[1])
                /\ total_faces' = Some(poly[2])
                /\ stages' = Visit
                /\ UNCHANGED <<materials, images, selected, active, render, addons, args,
                   source_object_name, source_object, target_object,
                   object_height, normalized_voxel_size, iter, quad_percentage,
                   has_vertex_colors, new_mat, number, diffuse_img, normal_img,
                   requested, preexisting, bakes, written>>
           ELSE /\ quad_count' = Some(poly[1])
                /\ total_faces' = Some(poly[2])
                /\ quad_percentage' = Some(QuadPercentage(poly[1], poly[2]))
                /\ selected' = sel
                /\ active' = Some(tgt)
                /\ objects' = SmoothShaded(objs, sel)
                /\ pc' = Succ(pc)
                /\ stages' = Visit
                /\ UNCHANGED <<materials, images, render, addons, result, args,
                   source_object_name, source_object, target_object,
                   object_height, normalized_voxel_size, iter,
                   has_vertex_colors, new_mat, number, diffuse_img, normal_img,
                   requested, preexisting, bakes, written>>

\* Smart UV Project on the whole target mesh.
UV ==
    /\ pc = "uv"
    /\ LET tgt == Val(target_object)
       IN /\ active' = Some(tgt)
          /\ objects' = WithObject(tgt, WithGeom(Obj(tgt),
                            <<GeomOp("smart_project", 0)>>))
    /\ pc' = Succ(pc)
    /\ stages' = Visit
    /\ UNCHANGED <<materials, images, selected, render, addons, result, args,
                   source_object_name, source_object, target_object,
                   object_height, normalized_voxel_size, iter, quad_count,
                   total_faces, quad_percentage, has_vertex_colors, new_mat,
                   number, diffuse_img, normal_img, requested, preexisting,
                   bakes, written>>

\* modifiers.new("Multires") subdivided multiresolution_levels times, then
\* modifiers.new("Shrinkwrap") projecting onto the source (project_limit in
\* thousandths)
WithCageModifiers(o, src) ==
    [o EXCEPT !.modifiers =
        LET multires == Modifier(UniqueName("Multires", ModifierNames(o)),
                                 "MULTIRES", "CATMULL_CLARK",
                                 multiresolution_levels,
                                 multiresolution_levels, None)
            names == ModifierNames(o) \cup {multires.name}
        IN @ \o <<multires,
                  Modifier(UniqueName("Shrinkwrap", names), "SHRINKWRAP",
                           "PROJECT", 5, 0, Some(src))>>]

\* Build the bake cage: subdivision and shrinkwrap modifiers.
Cage ==
    /\ pc = "cage"
    /\ LET tgt == Val(target_object)
       IN objects' = WithObject(tgt,
                        WithCageModifiers(Obj(tgt), Val(source_object)))
    /\ pc' = Succ(pc)
    /\ stages' = Visit
    /\ UNCHANGED <<materials, images, selected, active, render, addons, result,
                   args, source_object_name, source_object, target_object,
                   object_height, normalized_voxel_size, iter, quad_count,
                   total_faces, quad_percentage, has_vertex_colors, new_mat,
                   number, diffuse_img, normal_img, requested, preexisting,
                   bakes, written>>

\* create_vertex_color_material(obj), the material itself: the default nodes
\* cleared, a vertex-color node feeding the base color of a Principled BSDF
\* feeding the material output
VertexColorMaterial(name) ==
    [name |-> name,
     nodes |-> {Node(Name("Vertex Color"), "ShaderNodeVertexColor"),
                Node(Name("Principled BSDF"), "ShaderNodeBsdfPrincipled"),
                Node(Name("Material Output"), "ShaderNodeOutputMaterial")},
     links |-> {<<Name("Vertex Color"), "Color",
                  Name("Principled BSDF"), "Base Color">>,
                <<Name("Principled BSDF"), "BSDF",
                  Name("Material Output"), "Surface">>},
     active |-> None]

\* create_vertex_color_material(obj), the assignment: slot 0 if the object
\* has materials, a new slot otherwise
WithMaterialAssigned(o, mname) ==
    IF o.materials # <<>> THEN [o EXCEPT !.materials[1] = mname]
    ELSE [o EXCEPT !.materials = Append(@, mname)]

\* Which material the target gets: "vertex_color" (line 232), "new"
\* (lines 234-236) or "copy" (lines 239-241).
MaterialKind(o, hasColors, keep) ==
    IF Len(o.materials) = 0
    THEN IF hasColors /\ keep THEN "vertex_color" ELSE "new"
    ELSE "copy"

\* Give the target a material of its own.
MaterialSetup ==
    /\ pc = "material"
    /\ LET tgt == Val(target_object)
           o == Obj(tgt)
           hasColors == o.vcolors
           kind == MaterialKind(o, hasColors, Val(args).keep_vertex_colors)
           name == CASE kind = "vertex_color" ->
                            UniqueName("VertexColorMaterial", MaterialNames)
                     [] kind = "new" ->
                            UniqueName("New Material", MaterialNames)
                     [] kind = "copy" ->
                            UniqueName(o.materials[1][1], MaterialNames)
           mat == CASE kind = "vertex_color" -> VertexColorMaterial(name)
                    [] kind = "new" -> DefaultMaterial(name)
                    [] kind = "copy" ->
                            [Mat(o.materials[1]) EXCEPT !.name = name]
       IN /\ has_vertex_colors' = Some(hasColors)
          /\ materials' = materials \cup {mat}
          /\ new_mat' = Some(name)
          /\ objects' = WithObject(tgt,
                CASE kind = "vertex_color" -> WithMaterialAssigned(o, name)
                  [] kind = "new" -> [o EXCEPT !.materials = Append(@, name)]
                  [] kind = "copy" -> [o EXCEPT !.materials[1] = name])
    /\ pc' = Succ(pc)
    /\ stages' = Visit
    /\ UNCHANGED <<images, selected, active, render, addons, result, args,
                   source_object_name, source_object, target_object,
                   object_height, normalized_voxel_size, iter, quad_count,
                   total_faces, quad_percentage, number, diffuse_img,
                   normal_img, requested, preexisting, bakes, written>>

\* A faulty guard: the texture block runs whatever keep_vertex_colors says.
BakesTexturesAlways == TRUE

\* if not keep_vertex_colors
BakesTextures == ~Val(args).keep_vertex_colors

\* With keep_vertex_colors the texture block is skipped.
SkipTextures ==
    /\ pc = "textures"
    /\ ~BakesTextures
    /\ pc' = Succ("bake")
    /\ stages' = Visit
    /\ UNCHANGED <<objects, materials, images, selected, active, render,
                   addons, result, args, source_object_name, source_object,
                   target_object, object_height, normalized_voxel_size, iter,
                   quad_count, total_faces, quad_percentage, has_vertex_colors,
                   new_mat, number, diffuse_img, normal_img, requested,
                   preexisting, bakes, written>>

\* random.randint(1000, 9999): the script treats every value alike, so the
\* two ends of the range stand for all of it
Numbers == {RandLo, RandHi}

\* f"Diffuse_{number}", f"Normals_{number}"
DiffuseId(n) == <<"Diffuse", n>>
NormalId(n) == <<"Normals", n>>

NodeNames(m) == {nd.name : nd \in m.nodes}

\* nodes.new(type=...) in the tree of m, under the type's default name
WithNode(m, base, type, image) ==
    [m EXCEPT !.nodes = @ \cup
        {[name |-> UniqueName(base, NodeNames(m)), type |-> type,
          image |-> image]}]

\* Allocate the two images and add the texture nodes to the new material.
Textures ==
    /\ pc = "textures"
    /\ BakesTextures
    /\ \E n \in Numbers :
        LET dname == UniqueName(DiffuseId(n), ImageNames)
            dimg == NewImage(dname, texture_resolution)
            nname == UniqueName(NormalId(n), ImageNames \cup {dname})
            nimg == NewImage(nname, texture_resolution)
            m0 == Mat(Val(new_mat))
            m1 == IF Name("Principled BSDF") \in NodeNames(m0) THEN m0
                  ELSE WithNode(m0, "Principled BSDF",
                                "ShaderNodeBsdfPrincipled", None)
            m2 == WithNode(m1, "Image Texture", "ShaderNodeTexImage",
                           Some(dname))
            m3 == WithNode(m2, "Image Texture", "ShaderNodeTexImage",
                           Some(nname))
            m4 == WithNode(m3, "Normal Map", "ShaderNodeNormalMap", None)
        IN /\ number' = Some(n)
           /\ preexisting' = ImageNames
           /\ requested' = <<DiffuseId(n), NormalId(n)>>
           /\ images' = images \cup {dimg, nimg}
           /\ diffuse_img' = Some(dname)
           /\ normal_img' = Some(nname)
           /\ materials' = (materials \ {m0}) \cup {m4}
    /\ pc' = Succ(pc)
    /\ stages' = Visit
    /\ UNCHANGED <<objects, selected, active, render, addons, result, args,
                   source_object_name, source_object, target_object,
                   object_height, normalized_voxel_size, iter, quad_count,
                   total_faces, quad_percentage, has_vertex_colors, new_mat,
                   bakes, written>>

\* the texture node of material m showing image img
TexNode(m, img) ==
    (CHOOSE nd \in m.nodes :
        nd.type = "ShaderNodeTexImage" /\ nd.image = Some(img)).name

\* Apply the shrinkwrap, select Cycles on the GPU, show multires level 1.
ApplyShrinkwrap ==
    /\ pc = "apply_shrinkwrap"
    /\ LET tgt == Val(target_object)
       IN IF ~HasModifier(Obj(Val(active)), Name("Shrinkwrap"))
          THEN Raise("RuntimeError")
          ELSE /\ selected' = {tgt}
               /\ objects' =
                    LET objs == WithObject(Val(active),
                            ModifierApplied(Obj(Val(active)),
                                            Name("Shrinkwrap")))
                    IN [i \in DOMAIN objs |->
                        IF objs[i].name = tgt
                        THEN [objs[i] EXCEPT !.modifiers =
                                [k \in DOMAIN @ |->
                                    IF @[k].name = Name("Multires")
                                    THEN [@[k] EXCEPT !.levels = 1]
                                    ELSE @[k]]]
                        ELSE objs[i]]
               /\ render' = [render EXCEPT !.engine = "CYCLES",
                                           !.device = "GPU"]
               /\ pc' = Succ(pc)
               /\ stages' = Visit
               /\ UNCHANGED <<materials, images, active, addons, result, args,
                   source_object_name, source_object, target_object,
                   object_height, normalized_voxel_size, iter, quad_count,
                   total_faces, quad_percentage, has_vertex_colors, new_mat,
                   number, diffuse_img, normal_img, requested, preexisting,
                   bakes, written>>

\* the image img after a bake of the given type wrote it and it was packed
Baked(imgs, img, type, colorspace) ==
    {IF im.name = img
     THEN [im EXCEPT !.pixels = type, !.colorspace = colorspace,
                     !.packed = TRUE]
     ELSE im : im \in imgs}

\* material m with node nd made the active node
WithActiveNode(m, nd) == [m EXCEPT !.active = Some(nd)]

\* Bake the multires normals into the normal image, then the diffuse color
\* of the source into the diffuse image, and wire both into the shader.
Bake ==
    /\ pc = "bake"
    /\ selected' = {Val(source_object), Val(target_object)}
    /\ LET m == Mat(Val(new_mat))
           dnode == TexNode(m, Val(diffuse_img))
           nnode == TexNode(m, Val(normal_img))
           nmap == (CHOOSE nd \in m.nodes :
                        nd.type = "ShaderNodeNormalMap").name
       IN materials' = (materials \ {m}) \cup
            {[WithActiveNode(WithActiveNode(m, nnode), dnode)
                EXCEPT !.links = @ \cup
                    {<<dnode, "Color", Name("Principled BSDF"), "Base Color">>,
                     <<nnode, "Color", nmap, "Color">>,
                     <<nmap, "Normal", Name("Principled BSDF"), "Normal">>}]}
    /\ render' = [render EXCEPT !.use_bake_multires = TRUE,
                                !.use_selected_to_active = TRUE,
                                !.use_cage = TRUE,
                                !.cage_extrusion = "0.05",
                                !.use_pass_direct = FALSE,
                                !.use_pass_indirect = FALSE,
                                !.use_pass_color = TRUE,
                                !.bake_type = "DIFFUSE",
                                !.samples = "2"]
    /\ images' = Baked(Baked(images, Val(normal_img), "NORMAL", "Non-Color"),
                       Val(diffuse_img), "DIFFUSE", "sRGB")
    /\ bakes' = bakes \o <<"NORMAL", "DIFFUSE">>
    /\ pc' = Succ(pc)
    /\ stages' = Visit
    /\ UNCHANGED <<objects, active, addons, result, args, source_object_name,
                   source_object, target_object, object_height,
                   normalized_voxel_size, iter, quad_count, total_faces,
                   quad_percentage, has_vertex_colors, new_mat, number,
                   diffuse_img, normal_img, requested, preexisting, written>>

\* bpy.ops.object.delete(): the selected objects leave the session, and
\* every modifier that pointed at one of them points at nothing
Deleted(objs, names) ==
    LET kept == Without(objs, names)
    IN [i \in DOMAIN kept |->
        [kept[i] EXCEPT !.modifiers =
            [k \in DOMAIN @ |->
                IF @[k].target # None /\ Val(@[k].target) \in names
                THEN [@[k] EXCEPT !.target = None]
                ELSE @[k]]]]

\* Remove the Multires modifier from the active object, delete the source.
Discard ==
    /\ pc = "discard"
    /\ objects' = Deleted(WithObject(Val(active),
                            ModifierRemoved(Obj(Val(active)),
                                            Name("Multires"))),
                          {Val(source_object)})
    /\ selected' = {}
    /\ active' = IF active = source_object THEN None ELSE active
    /\ pc' = Succ(pc)
    /\ stages' = Visit
    /\ UNCHANGED <<materials, images, render, addons, result, args,
                   source_object_name, source_object, target_object,
                   object_height, normalized_voxel_size, iter, quad_count,
                   total_faces, quad_percentage, has_vertex_colors, new_mat,
                   number, diffuse_img, normal_img, requested, preexisting,
                   bakes, written>>

\* Path(file_path).stem + ".glb"
OutputFile == "model.glb"

\* Export the scene as GLB.
Export ==
    /\ pc = "export"
    /\ written' = Append(written, OutputFile)
    /\ pc' = Succ(pc)
    /\ stages' = Visit
    /\ UNCHANGED <<objects, materials, images, selected, active, render,
                   addons, result, args, source_object_name, source_object,
                   target_object, object_height, normalized_voxel_size, iter,
                   quad_count, total_faces, quad_percentage, has_vertex_colors,
                   new_mat, number, diffuse_img, normal_img, requested,
                   preexisting, bakes>>

\* Clean up: bpy.ops.wm.read_factory_settings(); return {"FINISHED"}.
Finish ==
    /\ pc = "finish"
    /\ objects' = FactoryObjects
    /\ materials' = {}
    /\ images' = {}
    /\ selected' = {Name("Cube")}
    /\ active' = Some(Name("Cube"))
    /\ render' = FactoryRender
    /\ addons' = FactoryAddons
    /\ pc' = Succ(pc)
    /\ result' = "FINISHED"
    /\ UNCHANGED <<locals, history>>

Next ==
    \/ Start
    \/ Setup
    \/ Import
    \/ Resolve
    \/ Validate
    \/ Duplicate
    \/ VoxelPass
    \/ VoxelExit
    \/ Cleanup
    \/ Quadriflow
    \/ UV
    \/ Cage
    \/ MaterialSetup
    \/ SkipTextures
    \/ Textures
    \/ ApplyShrinkwrap
    \/ Bake
    \/ Discard
    \/ Export
    \/ Finish

Spec == Init /\ [][Next]_vars

\* --------------------------------------------------------------- properties

\* the target object of the running call, while it exists
Target == Obj(Val(target_object))

KeepsVertexColors == args # None /\ Val(args).keep_vertex_colors

\* C1: in a run with keep_vertex_colors set (in particular one whose source
\* carries a vertex-color channel) no image is ever requested from the
\* session, no image is held by the call, and neither the normal bake nor the
\* diffuse bake is invoked, from the start of the run to its end.
KeepSkipsTextures ==
    KeepsVertexColors =>
        /\ requested = <<>>
        /\ bakes = <<>>
        /\ number = None
        /\ diffuse_img = None
        /\ normal_img = None

\* C1, the case: a run with keep_vertex_colors on a mesh with vertex colors
\* ran to its end without allocating or baking anything.
KeepRunFinished ==
    /\ pc = "done"
    /\ result = "FINISHED"
    /\ KeepsVertexColors
    /\ has_vertex_colors = Some(TRUE)
    /\ Len(written) = 1
    /\ requested = <<>>
    /\ bakes = <<>>

\* how a failed lookup of the source ends the call
NotFoundErrors == {"ValueError: No mesh found in the scene", "KeyError"}

\* the call is about to resolve a source the scene does not have
Unresolvable ==
    /\ pc = "resolve"
    /\ IF Val(source_object_name) = ""
       THEN \A i \in DOMAIN objects : objects[i].type # "MESH"
       ELSE \A i \in DOMAIN objects :
                objects[i].name # Name(Val(source_object_name))

\* C2: when the source cannot be resolved (no mesh-typed object with an empty
\* source_object_name, or a name the scene does not have), the call ends with
\* a not-found error in that very step, the session is left exactly as it
\* was (nothing duplicated, no modifier added, no object touched), no stage
\* has been entered and no file is written; and a call that ended so has no
\* target and wrote nothing.
UnresolvedSourceAborts ==
    /\ [](result \in NotFoundErrors =>
            /\ pc = "done"
            /\ source_object = None
            /\ target_object = None
            /\ stages = <<>>
            /\ written = <<>>)
    /\ [][Unresolvable =>
            /\ pc' = "done"
            /\ result' \in NotFoundErrors
            /\ UNCHANGED session
            /\ target_object' = None
            /\ written' = <<>>]_vars

\* C2, the case: the imported scene holds an object but no mesh, and the call
\* ended with the not-found error, without target and without output.
NoMeshRunAborted ==
    /\ pc = "done"
    /\ result = "ValueError: No mesh found in the scene"
    /\ objects # <<>>
    /\ target_object = None
    /\ written = <<>>

\* C3, as stated: once the measured height of the source is not positive the
\* call is over with an error, validation being the only stage entered: no
\* target, no remesh pass, no export.
DegenerateSourceAborts ==
    (object_height # None /\ Val(object_height) <= 0) =>
        /\ pc = "done"
        /\ result # "FINISHED"
        /\ stages = <<1>>
        /\ target_object = None
        /\ iter = None
        /\ written = <<>>

\* the measured counts and the percentage derived from them
Measured == quad_percentage # None

\* C4 (amended): for 0 <= quad_count <= total_faces the percentage is
\* 100 * quad_count / total_faces (exactly: num * total = 100 * quads * den),
\* it is 0 when total_faces is 0, no division by zero occurs, and it is 0
\* exactly when quad_count is 0, which includes total_faces = 0.
QuadPercentageExact ==
    /\ result # "ZeroDivisionError"
    /\ total_faces # None => Measured
    /\ Measured =>
        LET q == Val(quad_count)
            t == Val(total_faces)
            p == Val(quad_percentage)
        IN /\ 0 <= q /\ q <= t
           /\ p[2] > 0
           /\ t > 0 => p[1] * t = 100 * q * p[2]
           /\ t = 0 => p = RatZero
           /\ (p[1] = 0) <=> (q = 0)

\* C4, as stated: the same, with the percentage 0 exactly when total_faces
\* is 0.
QuadPercentageZeroIffNoFaces ==
    /\ result # "ZeroDivisionError"
    /\ total_faces # None => Measured
    /\ Measured =>
        LET q == Val(quad_count)
            t == Val(total_faces)
            p == Val(quad_percentage)
        IN /\ 0 <= q /\ q <= t
           /\ p[2] > 0
           /\ t > 0 => p[1] * t = 100 * q * p[2]
           /\ (p[1] = 0) <=> (t = 0)

\* C4, the case: the remesher returned faces, none of them a quad, and the
\* percentage is 0.
NoQuadsAmongFaces ==
    /\ Measured
    /\ Val(total_faces) > 0
    /\ Val(quad_count) = 0
    /\ Val(quad_percentage) = RatZero

\* C5, as stated: whenever textures are allocated, the two generated names
\* differ from each other and from every image name the session already
\* holds, whatever number was drawn.
GeneratedNamesAreFresh ==
    requested # <<>> =>
        /\ requested[1] # requested[2]
        /\ \A i \in DOMAIN requested : Name(requested[i]) \notin preexisting

\* C6, as stated: whenever a call has ended, finished or aborted, the session
\* is the one a fresh start has.
NoStateSurvivesRun ==
    (pc = "done" /\ result # "none") => FactorySession

\* the stages entered so far are an initial part of 1, 2, ..., 8, the block
\* at pc belongs to the last of them or to a later one, and a file has been
\* written at most once and only with all eight entered
Ordered ==
    /\ Len(stages) <= 8
    /\ stages = [i \in 1..Len(stages) |-> i]
    /\ (StageOf(pc) = 0 \/ stages = <<>> \/ StageOf(pc) >= Last(stages))
    /\ (StageOf(pc) > 1 => Len(stages) \in {StageOf(pc) - 1, StageOf(pc)})
    /\ Len(written) <= 1
    /\ (written # <<>> => Len(stages) = 8)

PassesDone ==
    IF pc = "voxel_loop" THEN NextIter ELSE Val(args).voxel_remesh_iterations

\* the first n operations on the mesh of o are voxel remesh passes of the
\* given size, and no other operation on it is one
RemeshedExactly(o, n, size) ==
    /\ Len(o.geom) >= n
    /\ \A i \in 1..n : o.geom[i] = GeomOp("REMESH", size)
    /\ \A i \in (n + 1)..Len(o.geom) : o.geom[i].op # "REMESH"

\* C8: with voxel_remesh_iterations = N >= 0, while the loop runs the target
\* has received as many passes as rounds were run, at most N; after the loop
\* it has received exactly N, one after the other on the same mesh, each of
\* size object_height * voxel_size_factor; and every round of the loop
\* advances the loop variable by one towards N, so the loop ends.
VoxelLoopExact ==
    /\ []((target_object # None /\ HasObject(Val(target_object))) =>
            /\ PassesDone <= Val(args).voxel_remesh_iterations
            /\ RemeshedExactly(Target, PassesDone,
                    Val(object_height) * Val(args).voxel_size_factor))
    /\ [][(pc = "voxel_loop" /\ pc' = "voxel_loop") =>
            /\ NextIter' = NextIter + 1
            /\ NextIter' <= Val(args).voxel_remesh_iterations]_vars

\* C8, the case: two passes were asked for and the loop has ended with two
\* passes applied.
TwoPassesApplied ==
    /\ pc = "cleanup"
    /\ Val(args).voxel_remesh_iterations = 2
    /\ iter = Some(1)
    /\ Len(Target.geom) = 2
    /\ Target.geom[1] = Target.geom[2]
    /\ Target.geom[1].op = "REMESH"

\* C9, as stated: when the scene is exported, the shrinkwrap projection is
\* part of the target mesh, the source is gone, and the target carries no
\* Remesh, Multires or Shrinkwrap modifier and no modifier that pointed at
\* the source.
ExportedTargetIsFlattened ==
    pc \in {"export", "finish"} =>
        /\ \E i \in DOMAIN Target.geom : Target.geom[i].op = "SHRINKWRAP"
        /\ ~HasObject(Val(source_object))
        /\ \A k \in DOMAIN Target.modifiers :
            /\ Target.modifiers[k].type
                    \notin {"REMESH", "MULTIRES", "SHRINKWRAP"}
            /\ Target.modifiers[k].target # source_object

\* m is the minimal vertex-color material: a vertex-color node feeding the
\* base color
IsVertexColorMaterial(m) ==
    \E nd \in m.nodes :
        /\ nd.type = "ShaderNodeVertexColor"
        /\ <<nd.name, "Color", Name("Principled BSDF"), "Base Color">>
                \in m.links

\* C10, as stated: when the scene is exported, with keep_vertex_colors set
\* and vertex colors on the target the material bound to the target is the
\* vertex-color material, whether or not the target had a material; otherwise
\* it is the call's own material (a copy or a new one); and in both cases
\* every other material is as it was imported.
VertexColorMaterialBound ==
    pc \in {"export", "finish"} =>
        LET m == Mat(Target.materials[1])
        IN /\ Len(Target.materials) = 1
           /\ m.name = Val(new_mat)
           /\ \A x \in materials \ {m} : x = DefaultMaterial(x.name)
           /\ (KeepsVertexColors /\ Target.vcolors) => IsVertexColorMaterial(m)

====
